---- MODULE Spec2Model ----
(***************************************************************************)
(* Model of the marshalling layer of the ZWO ASI camera wrapper (asi.py):  *)
(* the control value codec (_parse_return_value / _parse_input_value),     *)
(* the frame buffer allocator (_image_array), the descriptor decode        *)
(* (_parse_info, _parse_bins, _parse_formats) and the error-code handling  *)
(* of the boundary calls (_call_function, get_camera_property).            *)
(*                                                                         *)
(* Every method is a pure function of its arguments; the state machine     *)
(* records the last call (op, arg) and its outcome (res).  An outcome is   *)
(* either [ok |-> TRUE, val |-> v] (the method returned v) or              *)
(* [ok |-> FALSE, exc |-> e] (the method raised the Python exception e).   *)
(***************************************************************************)
EXTENDS Integers, Sequences, FiniteSets, TLC

(***************************************************************************)
(* IEEE-754 binary64 arithmetic.  Python floats are binary64; the scale    *)
(* factors 1e-6 and 0.1 are not dyadic, so r * scale is a rounded product. *)
(* A natural number is a little-endian sequence of bits without leading    *)
(* zeros (index 1 is the least significant bit, <<>> is zero).  A double   *)
(* is [neg, mant, exp] with value (-1)^neg * mant * 2^exp where mant has   *)
(* exactly 53 bits, or mant = <<>> for zero.                               *)
(***************************************************************************)
Precision == 53

Abs(n) == IF n < 0 THEN -n ELSE n

RECURSIVE NatToBits(_)
NatToBits(n) == IF n = 0 THEN <<>> ELSE <<n % 2>> \o NatToBits(n \div 2)

RECURSIVE BitsToNat(_)
BitsToNat(b) == IF b = <<>> THEN 0 ELSE Head(b) + 2 * BitsToNat(Tail(b))

RECURSIVE Strip(_)
Strip(b) ==
  IF b = <<>> THEN <<>>
  ELSE IF b[Len(b)] = 0 THEN Strip(SubSeq(b, 1, Len(b) - 1)) ELSE b

Zeros(n) == [i \in 1..n |-> 0]

ShiftLeft(b, n) == IF b = <<>> THEN <<>> ELSE Zeros(n) \o b

ShiftRight(b, n) == IF n >= Len(b) THEN <<>> ELSE SubSeq(b, n + 1, Len(b))

\* b * k + carry for a small natural k
RECURSIVE MulSmall(_, _, _)
MulSmall(b, k, carry) ==
  IF b = <<>> THEN NatToBits(carry)
  ELSE LET x == Head(b) * k + carry
       IN  <<x % 2>> \o MulSmall(Tail(b), k, x \div 2)

\* b + carry
RECURSIVE AddSmall(_, _)
AddSmall(b, carry) ==
  IF carry = 0 THEN b
  ELSE IF b = <<>> THEN NatToBits(carry)
  ELSE LET x == Head(b) + carry
       IN  <<x % 2>> \o AddSmall(Tail(b), x \div 2)

\* a >= b
RECURSIVE GeqFrom(_, _, _)
GeqFrom(a, b, i) ==
  IF i = 0 THEN TRUE
  ELSE IF a[i] # b[i] THEN a[i] > b[i]
  ELSE GeqFrom(a, b, i - 1)

Geq(a, b) ==
  IF Len(a) # Len(b) THEN Len(a) > Len(b) ELSE GeqFrom(a, b, Len(a))

\* a - b - borrow, for a >= b; the result is not stripped
RECURSIVE SubRaw(_, _, _)
SubRaw(a, b, borrow) ==
  IF a = <<>> THEN <<>>
  ELSE LET y == IF b = <<>> THEN 0 ELSE Head(b)
           x == Head(a) - y - borrow
           tb == IF b = <<>> THEN <<>> ELSE Tail(b)
       IN  IF x < 0 THEN <<x + 2>> \o SubRaw(Tail(a), tb, 1)
           ELSE <<x>> \o SubRaw(Tail(a), tb, 0)

Sub(a, b) == Strip(SubRaw(a, b, 0))

\* Long division in radix 2^DigitBits.  QuotDigit is the largest j in
\* lo..hi-1 with d * j <= rem, given d * lo <= rem < d * hi.
DigitBits == 8

Radix == 2 ^ DigitBits

RECURSIVE QuotDigit(_, _, _, _)
QuotDigit(rem, d, lo, hi) ==
  IF hi = lo + 1 THEN lo
  ELSE LET mid == (lo + hi) \div 2
       IN  IF Geq(rem, MulSmall(d, mid, 0)) THEN QuotDigit(rem, d, mid, hi)
           ELSE QuotDigit(rem, d, lo, mid)

DigitToBits(j) == NatToBits(j) \o Zeros(DigitBits - Len(NatToBits(j)))

\* floor(rem * Radix^n / d) for rem < d * Radix, least significant bit
\* first, with a sticky bit (remainder # 0) appended below; q accumulates
\* the digits already produced.  A zero remainder ends the division: the
\* remaining digits and the sticky bit are zero.
RECURSIVE DivSteps(_, _, _, _)
DivSteps(rem, d, n, q) ==
  IF rem = <<>> THEN Zeros(1 + (n + 1) * DigitBits) \o q
  ELSE LET j  == QuotDigit(rem, d, 0, Radix)
           r1 == IF j = 0 THEN rem ELSE Sub(rem, MulSmall(d, j, 0))
           q1 == DigitToBits(j) \o q
       IN  IF n = 0 THEN <<IF r1 = <<>> THEN 0 ELSE 1>> \o q1
           ELSE DivSteps(ShiftLeft(r1, DigitBits), d, n - 1, q1)

\* enough digits for Precision + 2 quotient bits
DivDigits == (Precision + 2) \div DigitBits + 1

FloatZero == [neg |-> FALSE, mant |-> <<>>, exp |-> 0]

\* round the natural p * 2^e to nearest, ties to even
RoundNearestEven(neg, p, e) ==
  IF p = <<>> THEN FloatZero
  ELSE IF Len(p) <= Precision
  THEN [neg |-> neg, mant |-> ShiftLeft(p, Precision - Len(p)),
        exp |-> e - (Precision - Len(p))]
  ELSE LET sh     == Len(p) - Precision
           q      == ShiftRight(p, sh)
           guard  == p[sh]
           sticky == \E i \in 1..(sh - 1) : p[i] = 1
           up     == guard = 1 /\ (sticky \/ q[1] = 1)
           q1     == IF up THEN AddSmall(q, 1) ELSE q
       IN  IF Len(q1) > Precision
           THEN [neg |-> neg, mant |-> ShiftRight(q1, 1), exp |-> e + sh + 1]
           ELSE [neg |-> neg, mant |-> q1, exp |-> e + sh]

\* float(n) for a Python int n
FloatFromInt(n) == RoundNearestEven(n < 0, NatToBits(Abs(n)), 0)

\* n * x for a Python int n and a float x: float(n) is exact for the
\* integers modelled (|n| < 2^53), so the product is n * x rounded once
FloatMulInt(n, x) ==
  IF n = 0 \/ x.mant = <<>> THEN FloatZero
  ELSE RoundNearestEven(x.neg # (n < 0), MulSmall(x.mant, Abs(n), 0), x.exp)

\* x / y for floats, y # 0
FloatDiv(x, y) ==
  IF x.mant = <<>> THEN FloatZero
  ELSE RoundNearestEven(x.neg # y.neg,
                        Strip(DivSteps(x.mant, y.mant, DivDigits, <<>>)),
                        x.exp - y.exp - (DivDigits * DigitBits + 1))

\* int(x): truncation toward zero
FloatTrunc(x) ==
  IF x.mant = <<>> THEN 0
  ELSE LET m == IF x.exp >= 0 THEN ShiftLeft(x.mant, x.exp)
                ELSE ShiftRight(x.mant, -x.exp)
           n == BitsToNat(m)
       IN  IF x.neg THEN -n ELSE n

\* the float literal num/den (den a power of ten), e.g. 1e-6, 0.1, 21.5
FloatLiteral(num, den) == FloatDiv(FloatFromInt(num), FloatFromInt(den))

(***************************************************************************)
(* Python values.  Every value carries its type in the field kind and its  *)
(* payload in a field of its own name, so that values of different types   *)
(* are different records whatever their payloads.                          *)
(***************************************************************************)
PyInt(n) == [kind |-> "int", int |-> n]

PyBool(b) == [kind |-> "bool", bool |-> b]

PyStr(t) == [kind |-> "str", str |-> t]

PyFloat(x) == [kind |-> "float", float |-> x]

\* a tuple of Python values
PyTuple(t) == [kind |-> "tuple", items |-> t]

PyNone == [kind |-> "NoneType"]

\* ctypes.c_long(n); the integers modelled are far inside the 64-bit range,
\* so the wrap-around of c_long never applies
c_long(n) == [kind |-> "c_long", value |-> n]

\* astropy Quantity: a float value and a unit
Quantity(x, unit) == [kind |-> "Quantity", value |-> x, unit |-> unit]

\* numpy array: only its layout is modelled, np.empty leaves the contents
\* uninitialised
ndarray(shape, dtype) ==
  [kind |-> "ndarray", shape |-> shape, dtype |-> dtype, order |-> "C"]

\* Outcomes of a call
Return(v) == [ok |-> TRUE, val |-> v]

Raise(exc, what, value) ==
  [ok |-> FALSE, exc |-> exc, what |-> what, value |-> value]

(***************************************************************************)
(* Enumerations: member name by value.                                     *)
(***************************************************************************)
BayerPattern == [i \in 0..3 |-> <<"RG", "BG", "GR", "GB">>[i + 1]]

ImgType ==
  [i \in -1..3 |->
     IF i = -1 THEN "END" ELSE <<"RAW8", "RGB24", "RAW16", "Y8">>[i + 1]]

FlipStatus == [i \in 0..3 |-> <<"NONE", "HORIZ", "VERT", "BOTH">>[i + 1]]

ErrorCode ==
  [i \in 0..18 |->
     <<"SUCCESS", "INVALID_INDEX", "INVALID_ID", "INVALID_CONTROL_TYPE",
       "CAMERA_CLOSED", "CAMERA_REMOVED", "INVALID_PATH",
       "INVALID_FILEFORMAT", "INVALID_SIZE", "INVALID_IMGTYPE",
       "OUTOF_BOUNDARY", "TIMEOUT", "INVALID_SEQUENCE", "BUFFER_TOO_SMALL",
       "VIDEO_MODE_ACTIVE", "EXPOSURE_IN_PROGRESS", "GENERAL_ERROR",
       "INVALID_MODE", "END">>[i + 1]]

\* canonical member names; BRIGHTNESS and AUTO_MAX_BRIGHTNESS are aliases
\* of OFFSET and AUTO_TARGET_BRIGHTNESS and never the .name of a member
ControlType ==
  [i \in 0..21 |->
     <<"GAIN", "EXPOSURE", "GAMMA", "WB_R", "WB_B", "OFFSET",
       "BANDWIDTHOVERLOAD", "OVERCLOCK", "TEMPERATURE", "FLIP",
       "AUTO_MAX_GAIN", "AUTO_MAX_EXP", "AUTO_TARGET_BRIGHTNESS",
       "HARDWARE_BIN", "HIGH_SPEED_MODE", "COOLER_POWER_PERC", "TARGET_TEMP",
       "COOLER_ON", "MONO_BIN", "FAN_ON", "PATTERN_ADJUST",
       "ANTI_DEW_HEATER">>[i + 1]]

\* mutant: an unknown value resolves to the first member instead of raising
EnumByValue_Default(enum, what, value) ==
  IF value \in DOMAIN enum THEN Return(PyStr(enum[value]))
  ELSE Return(PyStr(enum[CHOOSE i \in DOMAIN enum :
                           \A j \in DOMAIN enum : i <= j]))

\* Enum(value): the member's name, or ValueError
EnumByValue(enum, what, value) ==
  IF value \in DOMAIN enum THEN Return(PyStr(enum[value]))
  ELSE Raise("ValueError", what, PyInt(value))

\* Enum[name]: the member's value, or KeyError; the subscript must be a str
EnumByName(enum, what, key) ==
  IF key.kind = "str" /\ \E i \in DOMAIN enum : enum[i] = key.str
  THEN Return(PyInt(CHOOSE i \in DOMAIN enum : enum[i] = key.str))
  ELSE Raise("KeyError", what, key)

(***************************************************************************)
(* Capability registry.  An entry of units_and_scale is the scale factor   *)
(* as the decimal literal num/den of the source and the unit; a bare unit  *)
(* (u.adu) is the scale 1.                                                 *)
(***************************************************************************)
ScaleEntry(num, den, unit) ==
  [num |-> num, den |-> den, unit |-> unit,
   scale |-> FloatLiteral(num, den)]

MicroSecond == ScaleEntry(1, 1000000, "s")

TenthCelsius == ScaleEntry(1, 10, "deg_C")

\* mutant: TEMPERATURE taken as whole degrees, like TARGET_TEMP
units_and_scale_TemperatureUnscaled ==
  [t \in {"AUTO_TARGET_BRIGHTNESS", "AUTO_MAX_EXP", "BANDWIDTHOVERLOAD",
          "COOLER_POWER_PERC", "EXPOSURE", "OFFSET", "TARGET_TEMP",
          "TEMPERATURE"} |->
     CASE t = "AUTO_TARGET_BRIGHTNESS" -> ScaleEntry(1, 1, "adu")
       [] t = "AUTO_MAX_EXP"           -> MicroSecond
       [] t = "BANDWIDTHOVERLOAD"      -> ScaleEntry(1, 1, "percent")
       [] t = "COOLER_POWER_PERC"      -> ScaleEntry(1, 1, "percent")
       [] t = "EXPOSURE"               -> MicroSecond
       [] t = "OFFSET"                 -> ScaleEntry(1, 1, "adu")
       [] t = "TARGET_TEMP"            -> ScaleEntry(1, 1, "deg_C")
       [] t = "TEMPERATURE"            -> ScaleEntry(1, 1, "deg_C")]

units_and_scale ==
  [t \in {"AUTO_TARGET_BRIGHTNESS", "AUTO_MAX_EXP", "BANDWIDTHOVERLOAD",
          "COOLER_POWER_PERC", "EXPOSURE", "OFFSET", "TARGET_TEMP",
          "TEMPERATURE"} |->
     CASE t = "AUTO_TARGET_BRIGHTNESS" -> ScaleEntry(1, 1, "adu")
       [] t = "AUTO_MAX_EXP"           -> MicroSecond
       [] t = "BANDWIDTHOVERLOAD"      -> ScaleEntry(1, 1, "percent")
       [] t = "COOLER_POWER_PERC"      -> ScaleEntry(1, 1, "percent")
       [] t = "EXPOSURE"               -> MicroSecond
       [] t = "OFFSET"                 -> ScaleEntry(1, 1, "adu")
       [] t = "TARGET_TEMP"            -> ScaleEntry(1, 1, "deg_C")
       [] t = "TEMPERATURE"            -> TenthCelsius]

boolean_controls ==
  {"ANTI_DEW_HEATER", "COOLER_ON", "FAN_ON", "HARDWARE_BIN",
   "HIGH_SPEED_MODE", "MONO_BIN", "PATTERN_ADJUST"}

(***************************************************************************)
(* Control value codec.                                                    *)
(***************************************************************************)
_parse_return_value(value, control_type) ==
  LET int_value == IF value.kind = "c_long" THEN value.value
                   ELSE value.int   \* AttributeError: already an int
  IN  IF control_type \in DOMAIN units_and_scale
      THEN LET e == units_and_scale[control_type]
           IN  Return(Quantity(FloatMulInt(int_value, e.scale), e.unit))
      ELSE IF control_type \in boolean_controls
      THEN Return(PyBool(int_value # 0))
      ELSE IF control_type = "FLIP"
      THEN EnumByValue(FlipStatus, "FlipStatus", int_value)
      ELSE Return(PyInt(int_value))

\* quantity.to_value(unit) for a Quantity, the value itself otherwise; unit
\* is an entry of units_and_scale (a unit with its scale)
get_quantity_value(value, unit) ==
  IF value.kind = "Quantity"
  THEN IF value.unit = unit.unit
       THEN Return(PyFloat(FloatDiv(value.value, unit.scale)))
       ELSE Raise("UnitConversionError", unit.unit, value)
  ELSE Return(value)

\* int(value); the only strings modelled are names, never numerals
int(value) ==
  CASE value.kind = "int"   -> Return(value)
    [] value.kind = "bool"  -> Return(PyInt(IF value.bool THEN 1 ELSE 0))
    [] value.kind = "float" -> Return(PyInt(FloatTrunc(value.float)))
    [] value.kind = "str"   -> Raise("ValueError", "int", value)
    [] OTHER                -> Raise("TypeError", "int", value)

\* mutant: the number of the Quantity is taken as it is, without the
\* conversion to the registered unit and scale
_parse_input_value_NoConversion(value, control_type) ==
  LET v1 == IF control_type \in DOMAIN units_and_scale
            THEN IF value.kind = "Quantity"
                 THEN Return(PyFloat(value.value))
                 ELSE Return(value)
            ELSE IF control_type = "FLIP"
            THEN EnumByName(FlipStatus, "FlipStatus", value)
            ELSE Return(value)
  IN  IF ~v1.ok THEN v1
      ELSE LET n == int(v1.val)
           IN  IF ~n.ok THEN n ELSE Return(c_long(n.val.int))

_parse_input_value(value, control_type) ==
  LET v1 == IF control_type \in DOMAIN units_and_scale
            THEN get_quantity_value(value, units_and_scale[control_type])
            ELSE IF control_type = "FLIP"
            THEN EnumByName(FlipStatus, "FlipStatus", value)
            ELSE Return(value)
  IN  IF ~v1.ok THEN v1
      ELSE LET n == int(v1.val)
           IN  IF ~n.ok THEN n ELSE Return(c_long(n.val.int))

(***************************************************************************)
(* Frame buffer allocator.                                                 *)
(***************************************************************************)
Pixel == ScaleEntry(1, 1, "pix")

\* np.empty(shape, dtype=dtype, order='C'): numpy accepts a zero dimension
\* and rejects a negative one
np_empty(shape, dtype) ==
  IF \E i \in DOMAIN shape : shape[i] < 0
  THEN Raise("ValueError", "negative dimensions are not allowed",
             PyTuple([i \in DOMAIN shape |-> PyInt(shape[i])]))
  ELSE Return(ndarray(shape, dtype))

\* int(get_quantity_value(x, unit=u.pixel))
PixelCount(x) ==
  LET q == get_quantity_value(x, Pixel)
  IN  IF ~q.ok THEN q ELSE int(q.val)

\* mutant: RGB24 laid out interleaved, (height, width, 3)
_image_array_Interleaved(width, height, image_type) ==
  LET w == PixelCount(width)
      h == PixelCount(height)
  IN  IF ~w.ok THEN w
      ELSE IF ~h.ok THEN h
      ELSE IF image_type \in {"RAW8", "Y8"}
      THEN np_empty(<<h.val.int, w.val.int>>, "uint8")
      ELSE IF image_type = "RAW16"
      THEN np_empty(<<h.val.int, w.val.int>>, "uint16")
      ELSE IF image_type = "RGB24"
      THEN np_empty(<<h.val.int, w.val.int, 3>>, "uint8")
      ELSE Raise("UnboundLocalError", "image_array", PyStr(image_type))

_image_array(width, height, image_type) ==
  LET w == PixelCount(width)
      h == PixelCount(height)
  IN  IF ~w.ok THEN w
      ELSE IF ~h.ok THEN h
      ELSE IF image_type \in {"RAW8", "Y8"}
      THEN np_empty(<<h.val.int, w.val.int>>, "uint8")
      ELSE IF image_type = "RAW16"
      THEN np_empty(<<h.val.int, w.val.int>>, "uint16")
      ELSE IF image_type = "RGB24"
      THEN np_empty(<<3, h.val.int, w.val.int>>, "uint8")
      ELSE Raise("UnboundLocalError", "image_array", PyStr(image_type))

(***************************************************************************)
(* Device descriptor decode.                                               *)
(***************************************************************************)
NumBinSlots == 16

NumFormatSlots == 8

_parse_bins(supported_bins) ==
  LET bins == SelectSeq(supported_bins, LAMBDA b : b # 0)
  IN  Return(PyTuple([i \in DOMAIN bins |-> PyInt(bins[i])]))

\* mutant: END is skipped (continue) instead of ending the loop (break)
RECURSIVE ParseFormatsFrom_SkipEnd(_, _, _)
ParseFormatsFrom_SkipEnd(supported_formats, i, formats) ==
  IF i > Len(supported_formats) THEN Return(PyTuple(formats))
  ELSE LET format == EnumByValue(ImgType, "ImgType", supported_formats[i])
       IN  IF ~format.ok THEN format
           ELSE IF format.val.str # "END"
           THEN ParseFormatsFrom_SkipEnd(supported_formats, i + 1,
                                         Append(formats, format.val))
           ELSE ParseFormatsFrom_SkipEnd(supported_formats, i + 1, formats)

\* the loop of _parse_formats from slot i on, formats the list so far
RECURSIVE ParseFormatsFrom(_, _, _)
ParseFormatsFrom(supported_formats, i, formats) ==
  IF i > Len(supported_formats) THEN Return(PyTuple(formats))
  ELSE LET format == EnumByValue(ImgType, "ImgType", supported_formats[i])
       IN  IF ~format.ok THEN format
           ELSE IF format.val.str # "END"
           THEN ParseFormatsFrom(supported_formats, i + 1,
                                 Append(formats, format.val))
           ELSE Return(PyTuple(formats))

_parse_formats(supported_formats) ==
  ParseFormatsFrom(supported_formats, 1, <<>>)

\* bytes.decode(): name is [text, utf8], utf8 false for bytes that are not
\* valid UTF-8
BytesDecode(b) ==
  IF b.utf8 THEN Return(PyStr(b.text))
  ELSE Raise("UnicodeDecodeError", "utf-8", PyStr(b.text))

\* the dict display is evaluated entry by entry, in source order: the first
\* entry that raises ends the call
_parse_info(camera_info) ==
  LET name    == BytesDecode(camera_info.name)
      bayer   == EnumByValue(BayerPattern, "BayerPattern",
                             camera_info.bayer_pattern)
      bins    == _parse_bins(camera_info.supported_bins)
      formats == _parse_formats(camera_info.supported_video_format)
  IN  IF ~name.ok THEN name
      ELSE IF ~bayer.ok THEN bayer
      ELSE IF ~bins.ok THEN bins
      ELSE IF ~formats.ok THEN formats
      ELSE Return(
        [kind |-> "dict",
         name |-> name.val,
         camera_ID |-> PyInt(camera_info.camera_ID),
         max_height |-> Quantity(FloatFromInt(camera_info.max_height), "pix"),
         max_width |-> Quantity(FloatFromInt(camera_info.max_width), "pix"),
         is_color_camera |-> PyBool(camera_info.is_color_camera # 0),
         bayer_pattern |-> bayer.val,
         supported_bins |-> bins.val,
         supported_video_format |-> formats.val,
         pixel_size |-> Quantity(camera_info.pixel_size, "um"),
         has_mechanical_shutter |->
           PyBool(camera_info.has_mechanical_shutter # 0),
         has_ST4_port |-> PyBool(camera_info.has_ST4_port # 0),
         has_cooler |-> PyBool(camera_info.has_cooler # 0),
         is_USB3_host |-> PyBool(camera_info.is_USB3_host # 0),
         is_USB3_camera |-> PyBool(camera_info.is_USB3_camera # 0),
         e_per_adu |-> Quantity(camera_info.e_per_adu, "electron / adu"),
         bit_depth |-> Quantity(FloatFromInt(camera_info.bit_depth), "bit"),
         is_trigger_camera |-> PyBool(camera_info.is_trigger_camera # 0)])

_parse_caps(control_caps) ==
  LET control_type == EnumByValue(ControlType, "ControlType",
                                  control_caps.control_type)
      name         == BytesDecode(control_caps.name)
      description  == BytesDecode(control_caps.description)
      max_value    == _parse_return_value(PyInt(control_caps.max_value),
                                          control_type.val.str)
      min_value    == _parse_return_value(PyInt(control_caps.min_value),
                                          control_type.val.str)
      default_value == _parse_return_value(PyInt(control_caps.default_value),
                                           control_type.val.str)
  IN  IF ~control_type.ok THEN control_type
      ELSE IF ~name.ok THEN name
      ELSE IF ~description.ok THEN description
      ELSE IF ~max_value.ok THEN max_value
      ELSE IF ~min_value.ok THEN min_value
      ELSE IF ~default_value.ok THEN default_value
      ELSE Return(
        [kind |-> "dict",
         name |-> name.val,
         description |-> description.val,
         max_value |-> max_value.val,
         min_value |-> min_value.val,
         default_value |-> default_value.val,
         is_auto_supported |-> PyBool(control_caps.is_auto_supported # 0),
         is_writable |-> PyBool(control_caps.is_writable # 0),
         control_type |-> control_type.val])

(***************************************************************************)
(* Boundary calls.  error_code is the integer the driver returned.  A call *)
(* yields [res, warned]: its outcome and the message passed to             *)
(* warnings.warn (NoWarning when nothing is warned).  A message is modelled by    *)
(* its two format arguments.                                               *)
(***************************************************************************)
NoWarning == <<>>

\* "Error calling {}: {}".format(function_name, ErrorCode(error_code).name)
ErrorMessage(operation, error_code) ==
  LET code == EnumByValue(ErrorCode, "ErrorCode", error_code)
  IN  IF ~code.ok THEN code ELSE Return(<<operation, code.val.str>>)

\* the branch taken on error_code != ErrorCode.SUCCESS
FailBoundaryCall(operation, error_code) ==
  LET msg == ErrorMessage(operation, error_code)
  IN  IF ~msg.ok THEN [res |-> msg, warned |-> NoWarning]
      ELSE [res |-> Raise("RuntimeError", msg.val[1], PyStr(msg.val[2])),
            warned |-> msg.val]

_call_function(function_name, camera_ID, error_code) ==
  IF error_code # 0
  THEN FailBoundaryCall(function_name, error_code)
  ELSE [res |-> Return(PyNone), warned |-> NoWarning]

\* error_code and camera_info are what ASIGetCameraProperty returned and
\* stored for camera_index
get_camera_property(camera_index, error_code, camera_info) ==
  IF error_code # 0
  THEN FailBoundaryCall("getting camera properties", error_code)
  ELSE [res |-> _parse_info(camera_info), warned |-> NoWarning]

(***************************************************************************)
(* Inputs.                                                                 *)
(***************************************************************************)
MaxRaw == 4

MaxDim == 3

FreeSlots == 3

InfoBinSlots == 1

InfoFormatSlots == 2

MaxUnknownCode == 2

\* raw register values: a small range around zero, and the values for
\* which the scaled product is exact (15625 us, 5 s, 21.5 deg_C) or
\* rounded (15 us, 123 us)
RawValues == (-MaxRaw..MaxRaw) \cup {15, 123, 215, 15625, 5000000}

ControlNames == {ControlType[i] : i \in DOMAIN ControlType}

UnknownControlNames == {"NOT_A_CONTROL"}

FlipNames == {FlipStatus[i] : i \in DOMAIN FlipStatus}

\* typed values a caller passes to _parse_input_value
InputValues ==
  {PyInt(n) : n \in -1..MaxRaw}
  \cup {PyBool(b) : b \in BOOLEAN}
  \cup {PyStr(n) : n \in FlipNames \cup {"DIAGONAL"}}
  \cup {PyFloat(FloatLiteral(27, 10)), PyFloat(FloatLiteral(-27, 10))}
  \cup {Quantity(FloatLiteral(5, 1), "s"), Quantity(FloatLiteral(-25, 10), "s"),
        Quantity(FloatLiteral(215, 10), "deg_C"),
        Quantity(FloatLiteral(50, 1), "percent"),
        Quantity(FloatLiteral(3, 1), "adu")}

ImageTypes == {"RAW8", "RGB24", "RAW16", "Y8", "END", "RGB48"}

\* a width or height: a plain int or a Quantity in pixels
Dims ==
  {PyInt(n) : n \in -1..MaxDim}
  \cup {Quantity(FloatFromInt(n), "pix") : n \in -1..MaxDim}

\* slot arrays: free leading slots, the rest of the array filled with one
\* value (the terminator, or a value that leaves the array unterminated)
SlotArrays(size, free, values, fills) ==
  {[i \in 1..size |-> IF i <= free THEN p[i] ELSE f] :
     p \in [1..free -> values], f \in fills}

BinArrays(free) == SlotArrays(NumBinSlots, free, {0, 1, 2, 4}, {0, 8})

FormatArrays(free) == SlotArrays(NumFormatSlots, free, -1..4, {-1, 7})

Names == {[text |-> "ZWO ASI178MM", utf8 |-> TRUE],
          [text |-> "\\xff", utf8 |-> FALSE]}

PixelSizeMicrons == FloatLiteral(24, 10)

ElectronsPerAdu == FloatLiteral(1, 4)

CameraInfos(binFree, formatFree) ==
  {[name |-> n, camera_ID |-> 0, max_height |-> 2080, max_width |-> 3096,
    is_color_camera |-> c, bayer_pattern |-> b, supported_bins |-> bins,
    supported_video_format |-> formats,
    pixel_size |-> PixelSizeMicrons, has_mechanical_shutter |-> 0,
    has_ST4_port |-> 1, has_cooler |-> 0, is_USB3_host |-> 1,
    is_USB3_camera |-> 1, e_per_adu |-> ElectronsPerAdu,
    bit_depth |-> 14, is_trigger_camera |-> 0] :
     n \in Names, c \in {0, 1}, b \in {-1, 0, 3, 4, 7},
     bins \in BinArrays(binFree), formats \in FormatArrays(formatFree)}

ControlCapsSet ==
  {[name |-> [text |-> "Control", utf8 |-> TRUE],
    description |-> [text |-> "Description", utf8 |-> TRUE],
    max_value |-> r[1], min_value |-> r[2], default_value |-> r[3],
    is_auto_supported |-> a, is_writable |-> 1, control_type |-> t] :
     r \in {<<100, 0, 50>>, <<5000000, 15, 215>>, <<3, 0, 0>>, <<4, -1, 0>>},
     a \in {0, 1}, t \in -1..(22 + MaxUnknownCode - 2)}

\* what a driver call returns: the ErrorCode values and integers outside
DriverCodes == -1..(18 + MaxUnknownCode)

FunctionNames == {"ASIStartVideoCapture", "ASISetControlValue"}

(***************************************************************************)
(* The state: the call made (op is "none" between calls), its arguments,   *)
(* its outcome, the warning it issued, and, when its argument was the      *)
(* value the preceding _parse_return_value returned, that preceding call.  *)
(***************************************************************************)
VARIABLES op, arg, res, warned, prev

vars == <<op, arg, res, warned, prev>>

NoCall == [op |-> "none"]

Init ==
  /\ op = "none"
  /\ arg = <<>>
  /\ res = Return(PyNone)
  /\ warned = NoWarning
  /\ prev = NoCall

ParseReturnValue ==
  /\ op = "none"
  /\ \E r \in RawValues, t \in ControlNames \cup UnknownControlNames,
     wrap \in {"int", "c_long"} :
    LET value == IF wrap = "int" THEN PyInt(r) ELSE c_long(r)
    IN  /\ op' = "_parse_return_value"
        /\ arg' = [value |-> value, control_type |-> t]
        /\ res' = _parse_return_value(value, t)
        /\ warned' = NoWarning
        /\ prev' = NoCall

ParseInputValue ==
  /\ op = "none"
  /\ \E v \in InputValues, t \in ControlNames \cup UnknownControlNames :
    /\ op' = "_parse_input_value"
    /\ arg' = [value |-> v, control_type |-> t]
    /\ res' = _parse_input_value(v, t)
    /\ warned' = NoWarning
    /\ prev' = NoCall

\* the value just decoded is encoded again for the same control
ParseInputValueOfReturned ==
  /\ op = "_parse_return_value"
  /\ res.ok
  /\ op' = "_parse_input_value"
  /\ arg' = [value |-> res.val, control_type |-> arg.control_type]
  /\ res' = _parse_input_value(res.val, arg.control_type)
  /\ warned' = NoWarning
  /\ prev' = [op |-> op, arg |-> arg, res |-> res]

ImageArray ==
  /\ op = "none"
  /\ \E w \in Dims, h \in Dims, t \in ImageTypes :
    /\ op' = "_image_array"
    /\ arg' = [width |-> w, height |-> h, image_type |-> t]
    /\ res' = _image_array(w, h, t)
    /\ warned' = NoWarning
    /\ prev' = NoCall

ParseBins ==
  /\ op = "none"
  /\ \E a \in BinArrays(FreeSlots) :
    /\ op' = "_parse_bins"
    /\ arg' = [supported_bins |-> a]
    /\ res' = _parse_bins(a)
    /\ warned' = NoWarning
    /\ prev' = NoCall

ParseFormats ==
  /\ op = "none"
  /\ \E a \in FormatArrays(FreeSlots) :
    /\ op' = "_parse_formats"
    /\ arg' = [supported_formats |-> a]
    /\ res' = _parse_formats(a)
    /\ warned' = NoWarning
    /\ prev' = NoCall

ParseInfo ==
  /\ op = "none"
  /\ \E info \in CameraInfos(InfoBinSlots, InfoFormatSlots) :
    /\ op' = "_parse_info"
    /\ arg' = [camera_info |-> info]
    /\ res' = _parse_info(info)
    /\ warned' = NoWarning
    /\ prev' = NoCall

ParseCaps ==
  /\ op = "none"
  /\ \E caps \in ControlCapsSet :
    /\ op' = "_parse_caps"
    /\ arg' = [control_caps |-> caps]
    /\ res' = _parse_caps(caps)
    /\ warned' = NoWarning
    /\ prev' = NoCall

CallFunction ==
  /\ op = "none"
  /\ \E f \in FunctionNames, code \in DriverCodes :
    LET out == _call_function(f, 0, code)
    IN  /\ op' = "_call_function"
        /\ arg' = [function_name |-> f, camera_ID |-> 0, error_code |-> code]
        /\ res' = out.res
        /\ warned' = out.warned
        /\ prev' = NoCall

GetCameraProperty ==
  /\ op = "none"
  /\ \E code \in DriverCodes, info \in CameraInfos(0, 0) :
    LET out == get_camera_property(0, code, info)
    IN  /\ op' = "get_camera_property"
        /\ arg' = [camera_index |-> 0, error_code |-> code,
                   camera_info |-> info]
        /\ res' = out.res
        /\ warned' = out.warned
        /\ prev' = NoCall

\* the caller is done with the outcome
Finish ==
  /\ op # "none"
  /\ op' = "none"
  /\ arg' = <<>>
  /\ res' = Return(PyNone)
  /\ warned' = NoWarning
  /\ prev' = NoCall

Next ==
  \/ ParseReturnValue
  \/ ParseInputValue
  \/ ParseInputValueOfReturned
  \/ ImageArray
  \/ ParseBins
  \/ ParseFormats
  \/ ParseInfo
  \/ ParseCaps
  \/ CallFunction
  \/ GetCameraProperty
  \/ Finish

Spec == Init /\ [][Next]_vars

(***************************************************************************)
(* The control kinds as the specification states them, independent of the  *)
(* tables of the code.                                                     *)
(***************************************************************************)
ScaleMicro == FloatLiteral(1, 1000000)

ScaleTenth == FloatLiteral(1, 10)

ScaleOne == FloatLiteral(1, 1)

UnitScaledKinds ==
  {"EXPOSURE", "AUTO_MAX_EXP", "TEMPERATURE", "AUTO_TARGET_BRIGHTNESS",
   "BANDWIDTHOVERLOAD", "COOLER_POWER_PERC", "OFFSET", "TARGET_TEMP"}

BooleanKinds ==
  {"ANTI_DEW_HEATER", "COOLER_ON", "FAN_ON", "HARDWARE_BIN",
   "HIGH_SPEED_MODE", "MONO_BIN", "PATTERN_ADJUST"}

RawIntegerKinds ==
  {"GAIN", "GAMMA", "WB_R", "WB_B", "OVERCLOCK", "AUTO_MAX_GAIN"}

KindScale(t) ==
  CASE t \in {"EXPOSURE", "AUTO_MAX_EXP"} -> ScaleMicro
    [] t = "TEMPERATURE"                  -> ScaleTenth
    [] OTHER                              -> ScaleOne

\* the denominator of the decimal scale factor
KindDen(t) ==
  CASE t \in {"EXPOSURE", "AUTO_MAX_EXP"} -> 1000000
    [] t = "TEMPERATURE"                  -> 10
    [] OTHER                              -> 1

KindUnit(t) ==
  CASE t \in {"EXPOSURE", "AUTO_MAX_EXP"}                -> "s"
    [] t \in {"TEMPERATURE", "TARGET_TEMP"}              -> "deg_C"
    [] t \in {"BANDWIDTHOVERLOAD", "COOLER_POWER_PERC"}  -> "percent"
    [] OTHER                                             -> "adu"

FlipMember(r) ==
  CASE r = 0 -> "NONE" [] r = 1 -> "HORIZ" [] r = 2 -> "VERT"
    [] r = 3 -> "BOTH"

ExpectedDecode(r, t) ==
  CASE t \in UnitScaledKinds ->
         Return(Quantity(FloatMulInt(r, KindScale(t)), KindUnit(t)))
    [] t \in BooleanKinds -> Return(PyBool(r # 0))
    [] t = "FLIP" ->
         IF r \in 0..3 THEN Return(PyStr(FlipMember(r)))
         ELSE Raise("ValueError", "FlipStatus", PyInt(r))
    [] t \in RawIntegerKinds -> Return(PyInt(r))

\* the raw integer of a value passed to _parse_return_value
RawOf(value) == IF value.kind = "c_long" THEN value.value ELSE value.int

FiveSeconds == Quantity(FloatLiteral(5, 1), "s")

TwentyOneAndAHalfCelsius == Quantity(FloatLiteral(215, 10), "deg_C")

\* C1: for every known control type t and raw integer r,
\* _parse_return_value(r, t) is the result fixed by t's kind: r times the
\* scale factor with the unit for a UnitScaled kind (1e-6 s for EXPOSURE and
\* AUTO_MAX_EXP, 0.1 deg C for TEMPERATURE, 1 otherwise), r # 0 for a
\* Boolean kind, the flip member of ordinal r for FLIP (a failure outside
\* 0..3), r itself for a RawInteger kind; 215 decodes to 21.5 deg C.
C1_DecodeByKind ==
  (op = "_parse_return_value" /\ arg.control_type \in ControlNames) =>
    /\ res = ExpectedDecode(RawOf(arg.value), arg.control_type)
    /\ (arg.control_type = "TEMPERATURE" /\ RawOf(arg.value) = 215
          => res = Return(TwentyOneAndAHalfCelsius))
    /\ (arg.control_type = "EXPOSURE" /\ RawOf(arg.value) = 5000000
          => res = Return(FiveSeconds))

C1_Witness ==
  /\ op = "_parse_return_value"
  /\ arg.control_type = "TEMPERATURE"
  /\ arg.value = c_long(215)
  /\ res = Return(TwentyOneAndAHalfCelsius)

\* the float d is exactly r / den
ExactProduct(d, r, den) ==
  IF r = 0 THEN d.mant = <<>>
  ELSE /\ d.mant # <<>>
       /\ d.neg = (r < 0)
       /\ d.exp <= 0
       /\ MulSmall(d.mant, den, 0) = ShiftLeft(NatToBits(Abs(r)), -d.exp)

\* the raw values r that can legitimately be produced for t, given the
\* value d that r decodes to
Legitimate(r, t, d) ==
  CASE t \in UnitScaledKinds -> ExactProduct(d.value, r, KindDen(t))
    [] t \in BooleanKinds    -> r \in {0, 1}
    [] t = "FLIP"            -> r \in 0..3
    [] t \in RawIntegerKinds -> TRUE

\* C2: round trip: for every known control type t and every raw value r
\* legitimately produced for t (r * scale exact for a UnitScaled kind, 0 or 1
\* for a Boolean kind, 0..3 for FLIP, any r for a RawInteger kind),
\* _parse_input_value(_parse_return_value(r, t), t) is r; 5.0 seconds encodes
\* to 5000000 for EXPOSURE; the conversion to an integer truncates toward
\* zero.
C2_RoundTrip ==
  /\ (op = "_parse_input_value" /\ prev.op = "_parse_return_value"
        /\ arg.control_type \in ControlNames
        /\ Legitimate(RawOf(prev.arg.value), arg.control_type, prev.res.val))
       => res = Return(c_long(RawOf(prev.arg.value)))
  /\ (op = "_parse_input_value" /\ arg.control_type = "EXPOSURE"
        /\ arg.value = FiveSeconds)
       => res = Return(c_long(5000000))
  /\ (op = "_parse_input_value" /\ arg.control_type \in RawIntegerKinds
        /\ arg.value = PyFloat(FloatLiteral(-27, 10)))
       => res = Return(c_long(-2))

C2_Witness ==
  /\ op = "_parse_input_value"
  /\ prev.op = "_parse_return_value"
  /\ arg.control_type = "EXPOSURE"
  /\ prev.arg.value = c_long(5000000)
  /\ arg.value = FiveSeconds
  /\ res = Return(c_long(5000000))

\* C3: decoding or encoding a value for a control identifier outside the
\* known control identifiers fails; the raw integer is never returned as if
\* the control were of RawInteger kind.
C3_UnknownControlFails ==
  (op \in {"_parse_return_value", "_parse_input_value"}
     /\ arg.control_type \notin ControlNames)
    => ~res.ok

ValidFormats == {"RAW8", "RGB24", "RAW16", "Y8"}

\* the pixel count a width or height argument stands for
PixelsOf(x) ==
  IF x.kind = "int" THEN x.int
  ELSE CHOOSE n \in -1..(MaxDim + 1) : FloatFromInt(n) = x.value

ElementBits(a) == IF a.dtype = "uint8" THEN 8 ELSE 16

Planes(a) == IF Len(a.shape) = 3 THEN a.shape[1] ELSE 1

\* C4: for positive width w and height h, _image_array returns for RAW8 and
\* Y8 one plane of 8-bit elements of shape (h, w), for RAW16 one plane of
\* 16-bit elements of shape (h, w), for RGB24 three planes of 8-bit elements
\* of shape (3, h, w).
C4_BufferLayout ==
  (op = "_image_array" /\ arg.image_type \in ValidFormats
     /\ PixelsOf(arg.width) > 0 /\ PixelsOf(arg.height) > 0) =>
    LET w == PixelsOf(arg.width)
        h == PixelsOf(arg.height)
    IN  /\ res.ok
        /\ res.val.kind = "ndarray"
        /\ res.val.order = "C"
        /\ CASE arg.image_type \in {"RAW8", "Y8"} ->
                  /\ res.val.shape = <<h, w>>
                  /\ ElementBits(res.val) = 8
                  /\ Planes(res.val) = 1
             [] arg.image_type = "RAW16" ->
                  /\ res.val.shape = <<h, w>>
                  /\ ElementBits(res.val) = 16
                  /\ Planes(res.val) = 1
             [] arg.image_type = "RGB24" ->
                  /\ res.val.shape = <<3, h, w>>
                  /\ ElementBits(res.val) = 8
                  /\ Planes(res.val) = 3

C4_Witness ==
  /\ op = "_image_array"
  /\ arg.image_type = "RGB24"
  /\ arg.width = Quantity(FloatFromInt(3), "pix")
  /\ arg.height = Quantity(FloatFromInt(2), "pix")
  /\ res = Return(ndarray(<<3, 2, 3>>, "uint8"))

\* C5: for every format that is not RAW8, RGB24, RAW16 or Y8 (END included)
\* _image_array fails with an "unsupported image type" error and returns no
\* buffer.
C5_UnsupportedImageType ==
  (op = "_image_array" /\ arg.image_type \notin ValidFormats) =>
    /\ ~res.ok
    /\ res.exc = "UnsupportedImageType"

\* C6: for every valid format, _image_array fails with a validation error
\* and returns no buffer when width <= 0 or height <= 0.
C6_NonPositiveGeometryFails ==
  (op = "_image_array" /\ arg.image_type \in ValidFormats
     /\ (PixelsOf(arg.width) <= 0 \/ PixelsOf(arg.height) <= 0))
    => ~res.ok

\* the slots that precede the first slot holding the sentinel (all the
\* slots when none does)
BeforeFirst(slots, sentinel) ==
  IF \E i \in DOMAIN slots : slots[i] = sentinel
  THEN SubSeq(slots, 1,
              (CHOOSE i \in DOMAIN slots :
                 /\ slots[i] = sentinel
                 /\ \A j \in 1..(i - 1) : slots[j] # sentinel) - 1)
  ELSE slots

\* C7: the decoded binning list is exactly the slots that precede the first
\* zero slot, in source order.
C7_BinsStopAtFirstZero ==
  op = "_parse_bins" =>
    LET pre == BeforeFirst(arg.supported_bins, 0)
    IN  res = Return(PyTuple([i \in DOMAIN pre |-> PyInt(pre[i])]))

FormatName(i) ==
  CASE i = 0 -> "RAW8" [] i = 1 -> "RGB24" [] i = 2 -> "RAW16"
    [] i = 3 -> "Y8"

\* C8: the decoded format list is exactly the formats of the slots that
\* precede the first END (-1) slot, in source order; END is never a member,
\* the slots after the first END are not read, every member is one of RAW8,
\* RGB24, RAW16, Y8 (the decode fails when a slot before the first END holds
\* no known format).
C8_FormatsStopAtEnd ==
  op = "_parse_formats" =>
    LET pre == BeforeFirst(arg.supported_formats, -1)
    IN  IF \A i \in DOMAIN pre : pre[i] \in 0..3
        THEN /\ res = Return(PyTuple([i \in DOMAIN pre |->
                                         PyStr(FormatName(pre[i]))]))
             /\ \A i \in DOMAIN res.val.items :
                  res.val.items[i].str \in ValidFormats
        ELSE ~res.ok

C8_Witness ==
  /\ op = "_parse_formats"
  /\ arg.supported_formats[1] = 0
  /\ arg.supported_formats[2] = 2
  /\ arg.supported_formats[3] = -1
  /\ arg.supported_formats[4] = 7
  /\ res = Return(PyTuple(<<PyStr("RAW8"), PyStr("RAW16")>>))

\* C9: _parse_info fails atomically on an unresolvable mandatory
\* enumeration: when the Bayer-pattern ordinal is outside 0..3, or a format
\* slot before the first END is no known pixel format, the decode fails with
\* a decode error and returns no descriptor.
C9_DescriptorDecodeAtomic ==
  (op = "_parse_info"
     /\ \/ arg.camera_info.bayer_pattern \notin 0..3
        \/ LET pre == BeforeFirst(arg.camera_info.supported_video_format, -1)
           IN  \E i \in DOMAIN pre : pre[i] \notin 0..3)
    => /\ ~res.ok
       /\ res.exc \in {"ValueError", "UnicodeDecodeError"}
       /\ arg.camera_info.name.utf8 =>
            /\ res.exc = "ValueError"
            /\ res.what \in {"BayerPattern", "ImgType"}

C9_Witness ==
  /\ op = "_parse_info"
  /\ arg.camera_info.bayer_pattern = 7
  /\ arg.camera_info.name.utf8
  /\ res = Raise("ValueError", "BayerPattern", PyInt(7))

ErrorName(code) ==
  IF code \in 1..18 THEN ErrorCode[code] ELSE "GENERAL_ERROR"

\* C10: for every integer a boundary call returns, a nonzero value makes
\* the operation fail with its operation-specific error carrying the
\* operation's name and the resolved ErrorCode name, a value outside the
\* enumerated failure kinds resolving to GENERAL_ERROR; the translation of
\* the code never fails.
C10_ErrorTranslationTotal ==
  (op \in {"_call_function", "get_camera_property"} /\ arg.error_code # 0) =>
    /\ ~res.ok
    /\ res.exc = "RuntimeError"
    /\ res.what = (IF op = "_call_function" THEN arg.function_name
                   ELSE "getting camera properties")
    /\ res.value = PyStr(ErrorName(arg.error_code))

====
